---- MODULE Spec2Model ----
(***************************************************************************)
(* JSONParser of rest_framework_json_api/parsers.py as a state machine.    *)
(*                                                                         *)
(* Encoding of Python values.                                              *)
(*  - An optional member of a JSON object is a sequence of length <= 1:    *)
(*    <<>> is "member absent", <<v>> is "member present with value v".     *)
(*  - A JSON object with the members of a resource object is a record      *)
(*    [type, id, attributes, relationships] of optional members.           *)
(*  - A Python dict with dynamic keys (attributes, relationships, the      *)
(*    parsed result, the included index) is an association list: a         *)
(*    sequence of <<key, value>> pairs with distinct keys, in insertion    *)
(*    order, as Python dicts are.                                          *)
(*  - A dynamically typed value is a record [kind, str, items, map,        *)
(*    index]: None, a string, a dict (one resource object in items), a     *)
(*    list of resource objects, a nested mapping with dynamic keys, or     *)
(*    the included index.                                                  *)
(*  - A key of a dict with dynamic keys is a record [name, cased]: the     *)
(*    string, and the number of times the casing transform has been        *)
(*    applied to it (0 for a key of the document and for a key the parser  *)
(*    writes as a literal).  Two keys are the same key of a dict when      *)
(*    their names are equal.                                               *)
(***************************************************************************)
EXTENDS Integers, Sequences, FiniteSets, TLC

VARIABLES document, context, pc, data, parsed_data, raised, returned, steps

vars == <<document, context, pc, data, parsed_data, raised, returned, steps>>

\* Bounds of the input space.
MaxFields == 2
MaxList == 2
MaxIncluded == 2

----------------------------------------------------------------------------
\* Python values

None ==
    [kind |-> "None", str |-> "", items |-> <<>>, map |-> <<>>, index |-> <<>>]

Str(s) ==
    [kind |-> "str", str |-> s, items |-> <<>>, map |-> <<>>, index |-> <<>>]

Dict(obj) ==
    [kind |-> "dict", str |-> "", items |-> <<obj>>, map |-> <<>>, index |-> <<>>]

List(objs) ==
    [kind |-> "list", str |-> "", items |-> objs, map |-> <<>>, index |-> <<>>]

Map(m) ==
    [kind |-> "map", str |-> "", items |-> <<>>, map |-> m, index |-> <<>>]

Index(ix) ==
    [kind |-> "index", str |-> "", items |-> <<>>, map |-> <<>>, index |-> ix]

\* A key as the document or a literal of the parser gives it.
Key(name) == [name |-> name, cased |-> 0]

Members == {"type", "id", "attributes", "relationships"}

\* bool(obj) of a JSON object: a dict is truthy when it has a member.
ObjTruthy(obj) == \E m \in Members : obj[m] # <<>>

\* bool(v)
Truthy(v) ==
    CASE v.kind = "None" -> FALSE
      [] v.kind = "str" -> v.str # ""
      [] v.kind = "dict" -> ObjTruthy(v.items[1])
      [] v.kind = "list" -> v.items # <<>>
      [] v.kind = "map" -> v.map # <<>>
      [] v.kind = "index" -> v.index # <<>>

\* obj.get(m) for the string members 'type' and 'id'.
Get(obj, m) == IF obj[m] = <<>> THEN None ELSE Str(obj[m][1])

\* Association lists: d.keys(), name in d, d[name], d[k] = v, d.update(e).
\* d[k] = v on a key that is there keeps its place and the key inserted
\* first, and replaces the value only.
Keys(d) == {d[i][1].name : i \in DOMAIN d}

Has(d, name) == name \in Keys(d)

Lookup(d, name) == d[CHOOSE i \in DOMAIN d : d[i][1].name = name][2]

SetItem(d, k, v) ==
    IF Has(d, k.name)
    THEN [d EXCEPT ![CHOOSE i \in DOMAIN d : d[i][1].name = k.name][2] = v]
    ELSE Append(d, <<k, v>>)

RECURSIVE Update(_, _)
Update(d, e) ==
    IF e = <<>> THEN d
    ELSE Update(SetItem(d, Head(e)[1], Head(e)[2]), Tail(e))

----------------------------------------------------------------------------
\* utils.format_value(s, 'underscore') = inflection.underscore(s): a capital
\* after a lower-case letter gets a "_" before it, "-" becomes "_", the
\* result is lower-cased.  Tabulated on the keys and types the inputs use;
\* every other string of the inputs is lower-case without "-" and is its own
\* image.
Underscore(s) ==
    CASE s = "display-name" -> "display_name"
      [] s = "displayName" -> "display_name"
      [] s = "first-name" -> "first_name"
      [] s = "best-friend" -> "best_friend"
      [] s = "bestFriend" -> "best_friend"
      [] s = "blog-posts" -> "blog_posts"
      [] s = "blogPosts" -> "blog_posts"
      [] s = "zip-code" -> "zip_code"
      [] OTHER -> s

\* The casing transform applied to one key.
Recase(k) == [name |-> Underscore(k.name), cased |-> k.cased + 1]

\* utils.format_keys(obj, 'underscore'): of a dict, a new ordered dict filled
\* in the order of obj.items() under the re-cased keys, a later item replacing
\* the value of an earlier one with the same re-cased key, the values
\* formatted in turn; any other value as it is.  The member 'data' of an
\* envelope and the members 'type' and 'id' of an identifier are their own
\* image; the data of an envelope is formatted in turn.
RECURSIVE FormatKeysInto(_, _)
RECURSIVE FormatTree(_)
FormatTree(v) ==
    IF "kind" \in DOMAIN v
    THEN IF v.kind = "map" THEN Map(FormatKeysInto(<<>>, v.map)) ELSE v
    ELSE [data |-> [i \in DOMAIN v.data |-> FormatTree(v.data[i])]]

FormatKeysInto(formatted, items) ==
    IF items = <<>> THEN formatted
    ELSE FormatKeysInto(
            SetItem(formatted, Recase(Head(items)[1]), FormatTree(Head(items)[2])),
            Tail(items))

FormatKeys(d) == FormatKeysInto(<<>>, d)

----------------------------------------------------------------------------
\* JSONParser.parse_attributes, first as it would be with the casing
\* transform left out, and with the transform applied twice.

ParseAttributes_NoRecase(obj) ==
    IF obj.attributes # <<>> /\ obj.attributes[1] # <<>>
    THEN obj.attributes[1]
    ELSE <<>>

ParseAttributes_RecaseTwice(obj) ==
    IF obj.attributes # <<>> /\ obj.attributes[1] # <<>>
    THEN FormatKeys(FormatKeys(obj.attributes[1]))
    ELSE <<>>

ParseAttributes(obj) ==
    IF obj.attributes # <<>> /\ obj.attributes[1] # <<>>
    THEN FormatKeys(obj.attributes[1])
    ELSE <<>>

\* field_data.get('data') of a relationship envelope
EnvelopeData(envelope) ==
    IF envelope.data = <<>> THEN None ELSE envelope.data[1]

\* The loop of parse_relationships over relationships.items().
RECURSIVE ParsedRelationshipsInto(_, _)
ParsedRelationshipsInto(parsed_relationships, items) ==
    IF items = <<>> THEN parsed_relationships
    ELSE LET field_name == Head(items)[1]
             field_data == EnvelopeData(Head(items)[2])
         IN  ParsedRelationshipsInto(
               IF field_data.kind \in {"dict", "map", "None"}
               THEN SetItem(parsed_relationships, field_name, field_data)
               ELSE IF field_data.kind = "list"
                    THEN SetItem(parsed_relationships, field_name,
                                 List(field_data.items))
                    ELSE parsed_relationships,
               Tail(items))

ParseRelationships_DropNone(obj) ==
    SelectSeq(ParsedRelationshipsInto(<<>>,
                IF obj.relationships # <<>> /\ obj.relationships[1] # <<>>
                THEN FormatKeys(obj.relationships[1])
                ELSE <<>>),
              LAMBDA entry : entry[2].kind # "None")

\* JSONParser.parse_relationships
ParseRelationships(obj) ==
    ParsedRelationshipsInto(<<>>,
        IF obj.relationships # <<>> /\ obj.relationships[1] # <<>>
        THEN FormatKeys(obj.relationships[1])
        ELSE <<>>)

\* The result of a call that may raise.
Ok(v) == [error |-> "", value |-> v]

Raise(e) == [error |-> e, value |-> <<>>]

KeyErrorType == "KeyError: 'type'"

KeyErrorId == "KeyError: 'id'"

\* The body of the loop of parse_included for one included_item.
IncludedStep(included_data, included_item) ==
    IF included_item.type = <<>> THEN Raise(KeyErrorType)
    ELSE IF included_item.id = <<>> THEN Raise(KeyErrorId)
    ELSE LET type_ == Recase(Key(included_item.type[1]))
             with_default == IF Has(included_data, type_.name) THEN included_data
                             ELSE Append(included_data, <<type_, <<>>>>)
             parsed_item ==
                 Update(Update(<< <<Key("id"), Str(included_item.id[1])>> >>,
                               ParseAttributes(included_item)),
                        ParseRelationships(included_item))
         IN  Ok(SetItem(with_default, type_,
                        Append(Lookup(with_default, type_.name), parsed_item)))

RECURSIVE ParseIncludedInto(_, _)
ParseIncludedInto(included_data, included) ==
    IF included = <<>> THEN Ok(included_data)
    ELSE LET r == IncludedStep(included_data, Head(included))
         IN  IF r.error # "" THEN r
             ELSE ParseIncludedInto(r.value, Tail(included))

\* JSONParser.parse_included
ParseIncluded(included) == ParseIncludedInto(<<>>, included)

----------------------------------------------------------------------------
\* The inputs: the decoded document (the result of the JSON decoding of line
\* 67) and the parser context (the view, the request method and the resource
\* name utils.get_resource_name gives for the view).

Range(s) == {s[i] : i \in DOMAIN s}

SeqsUpTo(S, n) == UNION {[1..k -> S] : k \in 0..n}

IsInjective(s) == \A i, j \in DOMAIN s : i # j => s[i] # s[j]

Object(type, id, attributes, relationships) ==
    [type |-> type, id |-> id, attributes |-> attributes,
     relationships |-> relationships]

Identifier(type, id) == Object(<<type>>, <<id>>, <<>>, <<>>)

Envelope(d) == [data |-> d]

Tag1 == Identifier("tags", "1")

Tag2 == Identifier("tags", "2")

Person9 == Identifier("people", "9")

\* The shapes of a relationship envelope: no data member, null, one
\* identifier, a list of identifiers.
Envelopes ==
    {Envelope(<<>>), Envelope(<<None>>), Envelope(<<Dict(Person9)>>)}
    \cup {Envelope(<<List(s)>>) : s \in SeqsUpTo({Tag1, Tag2}, MaxList)}

\* The value of the i-th attribute of a mapping.
AttributeValue(i) == IF i % 2 = 1 THEN Str("Bolt") ELSE Str("Nut")

\* The attribute mappings with the wire keys ks, in this order.
AttributesOf(ks) == [i \in DOMAIN ks |-> <<Key(ks[i]), AttributeValue(i)>>]

\* An attribute whose value is a nested mapping with a wire-cased key.
Address == <<Key("address"), Map(<< <<Key("zip-code"), Str("Cog")>> >>)>>

\* The resource objects that are the primary data of the general documents:
\* any type and id, and attributes and relationships that may be named like
\* each other and like the reserved entries of the result.
GeneralAttributes ==
    {<<>>, << <<>> >>}
    \cup {<<AttributesOf(<<k>>)>> :
            k \in {"display-name", "id", "_included", "owner"}}
    \cup {<< <<Address>> >>}

GeneralRelationships ==
    {<<>>, << <<>> >>,
     << << <<Key("owner"), Envelope(<<Dict(Person9)>>)>> >> >>,
     << << <<Key("id"), Envelope(<<List(<<Tag1, Tag2>>)>>)>> >> >>,
     << << <<Key("_included"), Envelope(<<None>>)>> >> >>}

GeneralObjects ==
    {Object(t, i, a, r) :
        t \in {<<>>, <<"">>, <<"widgets">>, <<"gadgets">>},
        i \in {<<>>, <<"">>, <<"5">>},
        a \in GeneralAttributes,
        r \in GeneralRelationships}

\* The elements of a list of resource identifiers sent to a relationship
\* view: with and without type and id, empty or not.
IdentifierLike ==
    {Object(<<"tags">>, <<"3">>, <<>>, <<>>),
     Object(<<"tags">>, <<>>, <<>>, <<>>),
     Object(<<>>, <<"3">>, <<>>, <<>>),
     Object(<<"tags">>, <<"">>, <<>>, <<>>),
     Object(<<"">>, <<"3">>, <<>>, <<>>)}

\* The 'data' member that is no list: absent, null, an object.
GeneralData == {<<>>, <<None>>} \cup {<<Dict(o)>> : o \in GeneralObjects}

IncludedPerson ==
    Object(<<"people">>, <<"9">>, <<AttributesOf(<<"first-name">>)>>, <<>>)

IncludedNoId ==
    Object(<<"people">>, <<>>, <<AttributesOf(<<"first-name">>)>>, <<>>)

\* The 'included' member: absent or a list of resource objects.
GeneralIncluded ==
    {<<>>, << <<>> >>, <<<<IncludedPerson>>>>, <<<<IncludedNoId>>>>,
     <<<<IncludedPerson, IncludedNoId>>>>}

Views == {"RelationshipView", "ModelViewSet"}

Methods == {"POST", "PUT", "PATCH", "DELETE"}

Context(view, method) ==
    [view |-> view, method |-> method, resource_name |-> "widgets"]

\* Documents with every relationship mapping of up to MaxFields fields, in
\* every order, with every envelope shape, among them fields whose names
\* re-case to the same name.
RelationshipKeys == {"owner", "best-friend", "bestFriend"}

\* The mapping with the wire keys ks and the envelopes es, in this order.
RelationshipsOf(ks, es) == [i \in DOMAIN ks |-> <<Key(ks[i]), es[i]>>]

RelationshipDocument(relationships) ==
    [data |-> <<Dict(Object(<<"widgets">>, <<"5">>, <<>>, <<relationships>>))>>,
     included |-> <<>>]

\* Documents with every included list of up to MaxIncluded resource objects.
IncludedItems ==
    {Object(<<t>>, i, a, r) :
        t \in {"people", "blog-posts", "blogPosts"},
        i \in {<<>>, <<"9">>},
        a \in {<<>>, <<Append(AttributesOf(<<"first-name">>), Address)>>},
        r \in {<<>>, << << <<Key("best-friend"), Envelope(<<Dict(Person9)>>)>> >> >>}}

IncludedDocument(included) ==
    [data |-> <<Dict(Object(<<"widgets">>, <<>>,
                            <<AttributesOf(<<"display-name", "displayName">>)>>,
                            <<>>))>>,
     included |-> <<included>>]

----------------------------------------------------------------------------
\* The exceptions parse raises.

MissingPrimaryData ==
    "ParseError: Received document does not contain primary data"

MalformedIdentifierList ==
    "ParseError: Received data contains one or more malformed JSONAPI Resource Identifier Object(s)"

MalformedIdentifier ==
    "ParseError: Received data is not a valid JSONAPI Resource Identifier Object"

TypeConflict ==
    "Conflict: The resource object's type is not the type that constitute the collection represented by the endpoint"

MissingIdentifier ==
    "ParseError: The resource identifier object must contain an 'id' member"

AttributeErrorGet == "AttributeError: 'list' object has no attribute 'get'"

\* The position of parse: the statement it executes next.
Positions ==
    {"start", "view", "check_id", "construct", "attributes", "relationships",
     "included", "return", "returned", "raised"}

\* The entry of parse.  The inputs are: the general documents (every 'data'
\* that is absent, null or an object, and every list of up to MaxList
\* identifiers, with every 'included' of GeneralIncluded) under every view and
\* method; the documents with every relationship mapping of up to MaxFields
\* fields; the documents with every 'included' list of up to MaxIncluded
\* resource objects.
Init ==
    /\ \/ \E d \in GeneralData, inc \in GeneralIncluded,
             v \in Views, m \in Methods :
             /\ document = [data |-> d, included |-> inc]
             /\ context = Context(v, m)
       \/ \E k \in 0..MaxList : \E s \in [1..k -> IdentifierLike] :
          \E inc \in GeneralIncluded, v \in Views, m \in Methods :
             /\ document = [data |-> <<List(s)>>, included |-> inc]
             /\ context = Context(v, m)
       \/ \E k \in 0..MaxFields : \E ks \in [1..k -> RelationshipKeys] :
          \E es \in [1..k -> Envelopes] :
             /\ IsInjective(ks)
             /\ document = RelationshipDocument(RelationshipsOf(ks, es))
             /\ context = Context("ModelViewSet", "PUT")
       \/ \E k \in 0..MaxIncluded : \E inc \in [1..k -> IncludedItems] :
             /\ document = IncludedDocument(inc)
             /\ context = Context("ModelViewSet", "POST")
    /\ pc = "start"
    /\ data = None
    /\ parsed_data = <<>>
    /\ raised = ""
    /\ returned = ""
    /\ steps = <<>>

\* raise e
RaiseAt(step, e) ==
    /\ pc' = "raised"
    /\ raised' = e
    /\ steps' = Append(steps, step)
    /\ UNCHANGED <<document, context, parsed_data, returned>>

\* Fall through to the statement at position next.
Goto(step, next) ==
    /\ pc' = next
    /\ steps' = Append(steps, step)
    /\ UNCHANGED <<document, context, raised, returned>>

\* result.get('data')
ResultData == IF document.data = <<>> THEN None ELSE document.data[1]

\* result.get('included', [])
ResultIncluded ==
    IF document.included = <<>> THEN <<>> ELSE document.included[1]

\* Lines 67-70 and 107-108: data = result.get('data'); if data: ... else raise
ReadData ==
    /\ pc = "start"
    /\ data' = ResultData
    /\ IF Truthy(ResultData)
       THEN Goto("data", "view") /\ UNCHANGED parsed_data
       ELSE RaiseAt("data", MissingPrimaryData)

\* not (obj.get('id') and obj.get('type'))
IsMalformed(obj) == ~(Truthy(Get(obj, "id")) /\ Truthy(Get(obj, "type")))

\* Lines 72-83: the view is a RelationshipView.
ParseIdentifiers ==
    /\ pc = "view"
    /\ context.view = "RelationshipView"
    /\ UNCHANGED data
    /\ IF data.kind = "list"
       THEN IF \E i \in DOMAIN data.items : IsMalformed(data.items[i])
            THEN RaiseAt("identifiers", MalformedIdentifierList)
            ELSE /\ pc' = "returned"
                 /\ returned' = "data"
                 /\ steps' = Append(steps, "identifiers")
                 /\ UNCHANGED <<document, context, parsed_data, raised>>
       ELSE IF IsMalformed(data.items[1])
            THEN RaiseAt("identifiers", MalformedIdentifier)
            ELSE /\ pc' = "returned"
                 /\ returned' = "data"
                 /\ steps' = Append(steps, "identifiers")
                 /\ UNCHANGED <<document, context, parsed_data, raised>>

HasTypeConflict_UpdateOnly(obj, ctx) ==
    /\ Get(obj, "type") # Str(ctx.resource_name)
    /\ ctx.method \in {"PUT", "PATCH"}

\* Line 89: data.get('type') != resource_name and request.method in (...)
HasTypeConflict(obj, ctx) ==
    /\ Get(obj, "type") # Str(ctx.resource_name)
    /\ ctx.method \in {"PUT", "POST", "PATCH"}

\* Lines 85-96: the view is no RelationshipView; the type check.
CheckType ==
    /\ pc = "view"
    /\ context.view # "RelationshipView"
    /\ UNCHANGED data
    /\ IF data.kind = "list"
       THEN RaiseAt("type", AttributeErrorGet)
       ELSE IF HasTypeConflict(data.items[1], context)
            THEN RaiseAt("type", TypeConflict)
            ELSE Goto("type", "check_id") /\ UNCHANGED parsed_data

\* Line 97: not data.get('id') and request.method in ('PATCH', 'PUT')
LacksRequiredId(obj, ctx) ==
    /\ ~Truthy(Get(obj, "id"))
    /\ ctx.method \in {"PATCH", "PUT"}

\* Lines 97-98: the id check.
CheckId ==
    /\ pc = "check_id"
    /\ UNCHANGED data
    /\ IF LacksRequiredId(data.items[1], context)
       THEN RaiseAt("id", MissingIdentifier)
       ELSE Goto("id", "construct") /\ UNCHANGED parsed_data

\* Line 101: parsed_data = {'id': data.get('id')}
Construct ==
    /\ pc = "construct"
    /\ parsed_data' = << <<Key("id"), Get(data.items[1], "id")>> >>
    /\ Goto("construct", "attributes")
    /\ UNCHANGED data

\* Line 102: parsed_data.update(self.parse_attributes(data))
UpdateAttributes ==
    /\ pc = "attributes"
    /\ parsed_data' = Update(parsed_data, ParseAttributes(data.items[1]))
    /\ Goto("attributes", "relationships")
    /\ UNCHANGED data

\* Line 103: parsed_data.update(self.parse_relationships(data))
UpdateRelationships ==
    /\ pc = "relationships"
    /\ parsed_data' = Update(parsed_data, ParseRelationships(data.items[1]))
    /\ Goto("relationships", "included")
    /\ UNCHANGED data

\* Line 105: parsed_data['_included'] = self.parse_included(...)
SetIncluded ==
    /\ pc = "included"
    /\ UNCHANGED data
    /\ LET r == ParseIncluded(ResultIncluded)
       IN  IF r.error # ""
           THEN RaiseAt("included", r.error)
           ELSE /\ parsed_data' = SetItem(parsed_data, Key("_included"), Index(r.value))
                /\ Goto("included", "return")

\* Line 106: return parsed_data
Return ==
    /\ pc = "return"
    /\ pc' = "returned"
    /\ returned' = "parsed_data"
    /\ steps' = Append(steps, "return")
    /\ UNCHANGED <<document, context, data, parsed_data, raised>>

Next ==
    \/ ReadData
    \/ ParseIdentifiers
    \/ CheckType
    \/ CheckId
    \/ Construct
    \/ UpdateAttributes
    \/ UpdateRelationships
    \/ SetIncluded
    \/ Return

Spec == Init /\ [][Next]_vars

TypeOK ==
    /\ pc \in Positions
    /\ returned \in {"", "data", "parsed_data"}
    /\ (pc = "raised") = (raised # "")
    /\ (pc = "returned") = (returned # "")

----------------------------------------------------------------------------
\* Vocabulary of the properties.

Done == pc \in {"returned", "raised"}

InResourceMode == context.view # "RelationshipView"

\* The document has a 'data' member and it is not null.
HasPrimaryData == document.data # <<>> /\ document.data[1].kind # "None"

DataIsObject == HasPrimaryData /\ document.data[1].kind = "dict"

\* The object has no member m, or an empty one.
Lacks(obj, m) == obj[m] = <<>> \/ obj[m] = <<"">>

PrimaryObject == document.data[1].items[1]

MutatingIntents == {"POST", "PUT", "PATCH"}

UpdateIntents == {"PUT", "PATCH"}

Performed(step) == step \in Range(steps)

\* The fields of a mapping member (attributes, relationships) of an object.
Fields(obj, member) == IF obj[member] = <<>> THEN <<>> ELSE obj[member][1]

WireKeys(obj, member) == Keys(Fields(obj, member))

InternalKeys(obj, member) == {Underscore(k) : k \in WireKeys(obj, member)}

----------------------------------------------------------------------------
\* C1: parse fails with MissingPrimaryData if and only if the document has
\* no 'data' member (or a null one); a present 'data' member, an empty list
\* or an empty object included, is never rejected with MissingPrimaryData.
C1_MissingPrimaryDataIffNoDataMember ==
    Done => ((raised = MissingPrimaryData) <=> ~HasPrimaryData)

\* C2: outside relationship-endpoint mode a resource object whose declared
\* type differs from the expected resource name is rejected with
\* TypeConflict under create, replace and partialUpdate, with or without an
\* id: the type rule comes before the id rule.
C2_TypeConflictFirst ==
    ( /\ Done
      /\ InResourceMode
      /\ DataIsObject
      /\ PrimaryObject.type # <<>>
      /\ PrimaryObject.type[1] # context.resource_name
      /\ context.method \in MutatingIntents )
    => raised = TypeConflict

C2_Witness ==
    /\ raised = TypeConflict
    /\ context.method = "PATCH"
    /\ PrimaryObject.type = <<"gadgets">>
    /\ PrimaryObject.id = <<>>

\* C3: outside relationship-endpoint mode, for primary data of the expected
\* type, parse fails with MissingIdentifier exactly when the intent is
\* replace or partialUpdate and the data has no id, and under create the
\* parse succeeds and returns a ParsedRecord.
C3_MissingIdentifierExactly ==
    ( /\ Done
      /\ InResourceMode
      /\ DataIsObject
      /\ PrimaryObject.type = <<context.resource_name>> )
    => /\ (raised = MissingIdentifier) <=>
              (context.method \in UpdateIntents /\ Lacks(PrimaryObject, "id"))
       /\ context.method = "POST" => returned = "parsed_data"

\* C4: in relationship-endpoint mode, primary data in which some identifier
\* lacks type or id is rejected with MalformedResourceIdentifier, and any
\* other primary data is returned unchanged.
C4_RelationshipEndpoint ==
    (Done /\ ~InResourceMode /\ HasPrimaryData)
    => LET d == document.data[1]
       IN  IF \E i \in DOMAIN d.items :
                   Lacks(d.items[i], "type") \/ Lacks(d.items[i], "id")
           THEN raised \in {MalformedIdentifierList, MalformedIdentifier}
           ELSE returned = "data" /\ data = d

\* The documents of the wire format: a resource object has a type, in the
\* primary data and in 'included'; a list is primary data only for a
\* relationship endpoint.
IsResourceObject(obj) == obj.type # <<>> /\ obj.type[1] # ""

ConformsToWireFormat ==
    /\ HasPrimaryData /\ InResourceMode =>
          /\ document.data[1].kind # "list"
          /\ document.data[1].kind = "dict" => IsResourceObject(PrimaryObject)
    /\ \A i \in DOMAIN ResultIncluded : IsResourceObject(ResultIncluded[i])

TypedFailures ==
    {MissingPrimaryData, MalformedIdentifierList, MalformedIdentifier,
     TypeConflict, MissingIdentifier}

\* C5: for a document of the wire format, parse ends with a complete
\* ParsedRecord (or the identifiers of a relationship endpoint) or with one
\* of the typed failures, never with another failure.
C5_TypedOutcome ==
    (Done /\ ConformsToWireFormat)
    => \/ raised \in TypedFailures
       \/ returned = "data"
       \/ returned = "parsed_data" /\ {"id", "_included"} \subseteq Keys(parsed_data)

\* The value the relationship extractor is to store for an envelope.
Unwrapped(envelope) ==
    IF envelope.data = <<>> \/ envelope.data[1].kind = "None"
    THEN None
    ELSE envelope.data[1]

\* C6 as stated: one entry per relationship field of the input, under the
\* re-cased name, holding the unwrapped data of that field; no field is
\* dropped.
C6_OneEntryPerField ==
    Performed("relationships")
    => LET fields == Fields(PrimaryObject, "relationships")
           out == ParseRelationships(PrimaryObject)
       IN  /\ Len(out) = Len(fields)
           /\ \A i \in DOMAIN fields :
                 /\ Has(out, Underscore(fields[i][1].name))
                 /\ Lookup(out, Underscore(fields[i][1].name)) = Unwrapped(fields[i][2])

\* C6 (amended): one entry per distinct re-cased relationship field name,
\* holding the unwrapped data (null, the identifier, or the same sequence) of
\* a field of the input with that re-cased name; the empty mapping when
\* 'relationships' is absent; the entries are merged into the result.
C6_OneEntryPerInternalName ==
    Performed("relationships")
    => LET fields == Fields(PrimaryObject, "relationships")
           out == ParseRelationships(PrimaryObject)
       IN  /\ Keys(out) = InternalKeys(PrimaryObject, "relationships")
           /\ Len(out) = Cardinality(Keys(out))
           /\ \A n \in Keys(out) :
                 \E i \in DOMAIN fields :
                    /\ Underscore(fields[i][1].name) = n
                    /\ Lookup(out, n) = Unwrapped(fields[i][2])
           /\ PrimaryObject.relationships = <<>> => out = <<>>
           /\ pc = "included" =>
                 \A n \in Keys(out) : Lookup(parsed_data, n) = Lookup(out, n)

C6_Witness ==
    /\ pc = "included"
    /\ LET fields == Fields(PrimaryObject, "relationships")
       IN  /\ Len(fields) = 2
           /\ Underscore(fields[1][1].name) = Underscore(fields[2][1].name)
           /\ fields[1][2] = Envelope(<<None>>)
           /\ fields[2][2] = Envelope(<<List(<<Tag2, Tag1>>)>>)
           /\ Lookup(parsed_data, "best_friend") = List(<<Tag2, Tag1>>)

\* The flattened record of an included resource object.
Flattened(item) ==
    Update(Update(<< <<Key("id"), Get(item, "id")>> >>, ParseAttributes(item)),
           ParseRelationships(item))

\* The elements of 'included' whose re-cased type is t, in input order.
OfType(included, t) ==
    SelectSeq(included, LAMBDA item : Underscore(item.type[1]) = t)

RECURSIVE SumOfLengths(_)
SumOfLengths(ix) ==
    IF ix = <<>> THEN 0 ELSE Len(Head(ix)[2]) + SumOfLengths(Tail(ix))

\* C7: for every sequence of included resource objects the index has one key
\* per distinct re-cased type, and under it the flattened records of the
\* elements of that type in input order, duplicates kept; the lengths sum to
\* the number of elements.
C7_IncludedIndex ==
    Performed("included")
    => /\ raised = ""
       /\ Has(parsed_data, "_included")
       /\ LET included == ResultIncluded
              ix == Lookup(parsed_data, "_included").index
          IN  /\ Keys(ix) = {Underscore(included[i].type[1]) : i \in DOMAIN included}
              /\ Len(ix) = Cardinality(Keys(ix))
              /\ \A t \in Keys(ix) :
                    Lookup(ix, t) =
                       [j \in DOMAIN OfType(included, t) |->
                           Flattened(OfType(included, t)[j])]
              /\ SumOfLengths(ix) = Len(included)

IsMap(v) == "kind" \in DOMAIN v /\ v.kind = "map"

\* out holds the keys of the mapping wire, at every depth, each through the
\* casing transform exactly once: the names are the internal-cased names of
\* the wire keys and every key has been re-cased one time, not zero and not
\* two.
RECURSIVE IsRecasingOf(_, _)
IsRecasingOf(out, wire) ==
    /\ Keys(out) = {Underscore(k) : k \in Keys(wire)}
    /\ \A i \in DOMAIN out :
          /\ out[i][1].cased = 1
          /\ \E j \in DOMAIN wire :
                /\ wire[j][1].cased = 0
                /\ Underscore(wire[j][1].name) = out[i][1].name
                /\ IsMap(wire[j][2]) =>
                      /\ IsMap(out[i][2])
                      /\ IsRecasingOf(out[i][2].map, wire[j][2].map)

\* The entry of a flattened record comes from an attribute or a relationship
\* field of obj, its key and the keys below it re-cased exactly once.
FromField(entry, obj) ==
    /\ entry[1].cased = 1
    /\ \E member \in {"attributes", "relationships"} :
          \E j \in DOMAIN Fields(obj, member) :
             LET field == Fields(obj, member)[j]
             IN  /\ field[1].cased = 0
                 /\ Underscore(field[1].name) = entry[1].name
                 /\ (member = "attributes" /\ IsMap(field[2])) =>
                       /\ IsMap(entry[2])
                       /\ IsRecasingOf(entry[2].map, field[2].map)

\* C8: on every path to a returned ParsedRecord the casing transform is
\* applied exactly once to every field: every entry of the record, and of
\* every flattened record of its included index, is a literal entry of the
\* parser ('id', and the included index when no field has that name) or
\* comes from a wire field with its key, and every key nested below it,
\* re-cased one time (never zero times, never twice), and every wire key is
\* there under its internal-cased name.
C8_KeysRecased ==
    returned = "parsed_data"
    => /\ Keys(parsed_data) =
             {"id", "_included"}
             \cup InternalKeys(PrimaryObject, "attributes")
             \cup InternalKeys(PrimaryObject, "relationships")
       /\ IsRecasingOf(ParseAttributes(PrimaryObject),
                       Fields(PrimaryObject, "attributes"))
       /\ \A i \in DOMAIN parsed_data :
             \/ parsed_data[i][1] = Key("id")
             \/ /\ parsed_data[i][1] = Key("_included")
                /\ "_included" \notin InternalKeys(PrimaryObject, "attributes")
                /\ "_included" \notin InternalKeys(PrimaryObject, "relationships")
             \/ FromField(parsed_data[i], PrimaryObject)
       /\ LET included == ResultIncluded
              ix == Lookup(parsed_data, "_included").index
          IN  \A t \in Keys(ix) :
                 /\ Len(Lookup(ix, t)) = Len(OfType(included, t))
                 /\ \A j \in DOMAIN Lookup(ix, t) :
                       LET record == Lookup(ix, t)[j]
                           item == OfType(included, t)[j]
                       IN  /\ Keys(record) =
                                 {"id"}
                                 \cup InternalKeys(item, "attributes")
                                 \cup InternalKeys(item, "relationships")
                           /\ \A i \in DOMAIN record :
                                 \/ record[i][1] = Key("id")
                                 \/ FromField(record[i], item)

\* A returned record with an attribute stored once under the name of two
\* wire keys, and an included record with a nested mapping whose key has
\* been re-cased once.
C8_Witness ==
    /\ returned = "parsed_data"
    /\ WireKeys(PrimaryObject, "attributes") = {"display-name", "displayName"}
    /\ Keys(parsed_data) = {"id", "display_name", "_included"}
    /\ \A i \in DOMAIN parsed_data :
          parsed_data[i][1].name = "display_name" => parsed_data[i][1].cased = 1
    /\ Len(ResultIncluded) = 2
    /\ \E t \in Keys(Lookup(parsed_data, "_included").index) :
          \E j \in DOMAIN Lookup(Lookup(parsed_data, "_included").index, t) :
             LET record == Lookup(Lookup(parsed_data, "_included").index, t)[j]
             IN  /\ Keys(record) = {"id", "first_name", "address", "best_friend"}
                 /\ Lookup(record, "address") =
                       Map(<< <<[name |-> "zip_code", cased |-> 1], Str("Cog")>> >>)

IsPrefix(s, t) == Len(s) <= Len(t) /\ \A i \in DOMAIN s : s[i] = t[i]

\* The steps of parse outside relationship-endpoint mode, in the order of
\* the code.
ResourceSteps ==
    <<"data", "type", "id", "construct", "attributes", "relationships",
      "included", "return">>

\* C9: attribute and relationship extraction come before the
\* ResourceValidator checks (type, then id), included indexing after them.
C9_ExtractionBeforeValidation ==
    InResourceMode
    => \A i \in DOMAIN steps :
          steps[i] \in {"type", "id"}
          => /\ \E j \in 1..(i - 1) : steps[j] = "attributes"
             /\ \E j \in 1..(i - 1) : steps[j] = "relationships"

\* The order of the code: outside relationship-endpoint mode the type check
\* and the id check come first, then the extraction and merge of the
\* attributes and of the relationships, then the included indexing; a parse
\* that fails a check has extracted, merged and indexed nothing.
ValidationFirst ==
    InResourceMode
    => /\ IsPrefix(steps, ResourceSteps)
       /\ raised \in {TypeConflict, MissingIdentifier}
          => /\ parsed_data = <<>>
             /\ Range(steps) \subseteq {"data", "type", "id"}

\* C10: in every returned ParsedRecord the 'id' entry is the id of the
\* primary data and the included entry is the index of 'included', whatever
\* the fields are named, and no attribute and relationship of the same name
\* overwrite each other.
C10_ReservedEntriesKept ==
    returned = "parsed_data"
    => /\ Lookup(parsed_data, "id") = Get(PrimaryObject, "id")
       /\ Lookup(parsed_data, "_included") = Index(ParseIncluded(ResultIncluded).value)
       /\ InternalKeys(PrimaryObject, "attributes")
             \cap InternalKeys(PrimaryObject, "relationships") = {}

====
